---------------------------- MODULE Spec2Model ----------------------------
(***************************************************************************)
(* Pipeline Interceptor (scripts/pipeline-interceptor.py).                 *)
(*                                                                         *)
(* The model covers class GitLabPipelineInterceptor: the rendering         *)
(* workflow (token, project, upload, pipeline + cancel, details), the      *)
(* graph builder build_job_graph and the comparison of compare_pipelines.  *)
(* Remote requests are steps whose HTTP status and body are chosen by the  *)
(* environment.  Three specifications are given:                           *)
(*   Spec      - one run of the script (render or compare mode);           *)
(*   SpecBuild - build_job_graph applied to a bounded job sequence;        *)
(*   SpecDiff  - the comparison applied to two bounded job sequences, in   *)
(*               both argument orders.                                     *)
(* Exceptions raised by the HTTP library, by open() or by HTML scraping    *)
(* are outside the model; a request "fails" by its status code.            *)
(***************************************************************************)
EXTENDS Integers, Sequences, FiniteSets, TLC

VARIABLES
    pc,         \* position of the script
    mode,       \* "compare" when --compare was given, else "render"
    token,      \* self.token
    call,       \* which render_pipeline call of the run is active (1 or 2)
    calls,      \* requests sent by the active render_pipeline call, with status
    project,    \* render_pipeline local: project
    pipeline,   \* render_pipeline local: pipeline
    ret,        \* value the active render_pipeline call returns
    result1,    \* compare_pipelines local: result1
    result2,    \* compare_pipelines local: result2
    result,     \* __main__: result
    swapped,    \* SpecDiff: the comparison with the arguments exchanged
    jobs,       \* SpecBuild: argument of build_job_graph
    job_graph   \* SpecBuild: value build_job_graph returned

vars == <<pc, mode, token, call, calls, project, pipeline, ret,
          result1, result2, result, swapped, jobs, job_graph>>

----------------------------------------------------------------------------
(* Bounds and input universes *)

MaxJobs == 2

\* Python None, for record-valued places
None == [none |-> TRUE]

\* Python None, for self.token
NoToken == "None"

Range(s) == {s[i] : i \in DOMAIN s}

JobSeqs(R) == UNION {[1..n -> R] : n \in 0..MaxJobs}

OptionalFields == {"dependencies", "needs", "when", "allow_failure"}

OptionalSample ==
    [dependencies  |-> <<"test", "build">>,
     needs         |-> <<[name |-> "test"], [name |-> "build"]>>,
     when          |-> "manual",
     allow_failure |-> TRUE]

\* Job records for SpecBuild: every subset of the optional keys, two names,
\* two stages, and one record without the required key 'stage'.
BuildRecords ==
    {[name |-> n, stage |-> st, status |-> "created"] @@ [f \in fs |-> OptionalSample[f]] :
        n \in {"build", "deploy"}, st \in {"compile", "link"}, fs \in SUBSET OptionalFields}
    \cup {[name |-> "build", status |-> "created"]}

\* Job records for SpecDiff: names build/deploy, stages compile/link;
\* 'dependencies' absent, empty, reordered, repeated and changed; a pair of
\* records that differ in 'needs', 'when' and 'status' only.
DiffRecords ==
    { [name |-> "build", stage |-> "compile", status |-> "created"],
      [name |-> "build", stage |-> "link", status |-> "skipped",
       dependencies |-> <<>>, needs |-> <<>>, when |-> "manual", allow_failure |-> TRUE],
      [name |-> "deploy", stage |-> "link", status |-> "created",
       dependencies |-> <<"build", "test">>, needs |-> <<[name |-> "build"]>>],
      [name |-> "deploy", stage |-> "link", status |-> "created",
       dependencies |-> <<"test", "build", "test">>],
      [name |-> "deploy", stage |-> "link", status |-> "manual",
       dependencies |-> <<"build", "test">>, needs |-> <<[name |-> "lint"]>>, when |-> "always"],
      [name |-> "deploy", stage |-> "compile", status |-> "created",
       dependencies |-> <<"test", "lint">>, allow_failure |-> FALSE] }

\* Job lists the remote jobs endpoint answers with in Spec
RemoteRecords ==
    { [name |-> "build", stage |-> "compile", status |-> "created"],
      [name |-> "deploy", stage |-> "link", status |-> "created",
       dependencies |-> <<"build">>, needs |-> <<[name |-> "build"]>>] }

\* Pipeline variable lists the remote variables endpoint answers with
RemoteVariables == { <<>>, <<[key |-> "ENV", value |-> "test"]>> }

----------------------------------------------------------------------------
(* Python helpers *)

\* dict.get(key, default)
Get(d, key, default) == IF key \in DOMAIN d THEN d[key] ELSE default

\* d[key] = value
Put(d, key, value) == [k \in DOMAIN d \cup {key} |-> IF k = key THEN value ELSE d[k]]

EmptyDict == <<>>

\* list(s) for a set s: its elements once each, in an order Python does not fix
ListOfSet(s) == {l \in [1..Cardinality(s) -> s] : Range(l) = s}

----------------------------------------------------------------------------
(* build_job_graph *)

KeyError == [raised |-> "KeyError"]

HasRequiredKeys(job) ==
    /\ {"name", "stage", "status"} \subseteq DOMAIN job
    /\ \A i \in DOMAIN Get(job, "needs", <<>>) : "name" \in DOMAIN job.needs[i]

\* Variant of JobNode: 'when' defaults to "always"
JobNode_when_always(job) ==
    [stage         |-> job.stage,
     status        |-> job.status,
     dependencies  |-> Get(job, "dependencies", <<>>),
     needs         |-> [i \in DOMAIN Get(job, "needs", <<>>) |-> job.needs[i].name],
     when          |-> Get(job, "when", "always"),
     allow_failure |-> Get(job, "allow_failure", FALSE)]

\* The node literal of lines 182-189
JobNode(job) ==
    [stage         |-> job.stage,
     status        |-> job.status,
     dependencies  |-> Get(job, "dependencies", <<>>),
     needs         |-> [i \in DOMAIN Get(job, "needs", <<>>) |-> job.needs[i].name],
     when          |-> Get(job, "when", "on_success"),
     allow_failure |-> Get(job, "allow_failure", FALSE)]

\* Variant of BuildLoop: the first record of a name is kept
RECURSIVE BuildLoop_first_wins(_, _)
BuildLoop_first_wins(js, graph) ==
    IF js = <<>> THEN graph
    ELSE IF ~HasRequiredKeys(Head(js)) THEN KeyError
    ELSE IF Head(js).name \in DOMAIN graph THEN BuildLoop_first_wins(Tail(js), graph)
    ELSE BuildLoop_first_wins(Tail(js), Put(graph, Head(js).name, JobNode(Head(js))))

RECURSIVE BuildLoop(_, _)
BuildLoop(js, graph) ==
    IF js = <<>> THEN graph
    ELSE IF ~HasRequiredKeys(Head(js)) THEN KeyError
    ELSE BuildLoop(Tail(js), Put(graph, Head(js).name, JobNode(Head(js))))

build_job_graph(js) == BuildLoop(js, EmptyDict)

----------------------------------------------------------------------------
(* compare_pipelines, lines 235-268: the comparison of two renderings *)

\* {j['name']: j for j in jobs}
RECURSIVE DictLoop(_, _)
DictLoop(js, d) ==
    IF js = <<>> THEN d
    ELSE DictLoop(Tail(js), Put(d, Head(js).name, Head(js)))

JobsByName(js) == DictLoop(js, EmptyDict)

\* Variant of JobsRemoved: the symmetric difference of the two key sets
JobsRemoved_symmetric(jobs1, jobs2) ==
    ListOfSet((DOMAIN jobs1 \ DOMAIN jobs2) \cup (DOMAIN jobs2 \ DOMAIN jobs1))

\* list(set(jobs1.keys()) - set(jobs2.keys()))
JobsRemoved(jobs1, jobs2) == ListOfSet(DOMAIN jobs1 \ DOMAIN jobs2)

\* Variant of JobsAdded: every candidate name, the baseline not subtracted
JobsAdded_all(jobs1, jobs2) == ListOfSet(DOMAIN jobs2)

\* list(set(jobs2.keys()) - set(jobs1.keys()))
JobsAdded(jobs1, jobs2) == ListOfSet(DOMAIN jobs2 \ DOMAIN jobs1)

\* Variant of StageDiffers: the candidate's status read for its stage
StageDiffers_status(j1, j2) == j1.stage # j2.status

\* j1['stage'] != j2['stage']
StageDiffers(j1, j2) == j1.stage # j2.stage

\* Variant of StageChange: new and old stage exchanged
StageChange_reversed(job_name, old, new) == job_name \o ": " \o new \o " -> " \o old

\* f"{job_name}: {j1['stage']} -> {j2['stage']}"
StageChange(job_name, old, new) == job_name \o ": " \o old \o " -> " \o new

\* Variant of DepSet: the names of 'needs' counted as dependencies too
DepSet_with_needs(j) ==
    Range(Get(j, "dependencies", <<>>)) \cup {n.name : n \in Range(Get(j, "needs", <<>>))}

\* set(j.get('dependencies', []))
DepSet(j) == Range(Get(j, "dependencies", <<>>))

\* Variant of DepChanges: 'removed' and 'added' exchanged
DepChanges_swapped(job_name, deps1, deps2) ==
    { [job |-> job_name, removed |-> a, added |-> r] :
      r \in ListOfSet(deps1 \ deps2), a \in ListOfSet(deps2 \ deps1) }

\* The entry appended for a job whose dependency sets differ; list(set)
\* leaves the order of 'removed' and of 'added' open.
DepChanges(job_name, deps1, deps2) ==
    { [job |-> job_name, removed |-> r, added |-> a] :
      r \in ListOfSet(deps1 \ deps2), a \in ListOfSet(deps2 \ deps1) }

\* The for loop over the common names, visited in the order 'order'.  The
\* result is the set of comparisons the loop can end with.
RECURSIVE CompareLoop(_, _, _, _)
CompareLoop(order, jobs1, jobs2, comparison) ==
    IF order = <<>> THEN {comparison}
    ELSE LET job_name == Head(order)
             j1 == jobs1[job_name]
             j2 == jobs2[job_name]
             stage_changes ==
                 IF StageDiffers(j1, j2)
                 THEN Append(comparison.stage_changes, StageChange(job_name, j1.stage, j2.stage))
                 ELSE comparison.stage_changes
             deps1 == DepSet(j1)
             deps2 == DepSet(j2)
         IN  IF deps1 # deps2
             THEN UNION { CompareLoop(Tail(order), jobs1, jobs2,
                              [comparison EXCEPT
                                  !.stage_changes = stage_changes,
                                  !.dependency_changes = Append(@, entry)]) :
                          entry \in DepChanges(job_name, deps1, deps2) }
             ELSE CompareLoop(Tail(order), jobs1, jobs2,
                              [comparison EXCEPT !.stage_changes = stage_changes])

\* Every comparison lines 235-262 can produce for two job lists
Comparisons(js1, js2) ==
    LET jobs1 == JobsByName(js1)
        jobs2 == JobsByName(js2)
    IN  UNION { CompareLoop(order, jobs1, jobs2,
                    [jobs_added         |-> added,
                     jobs_removed       |-> removed,
                     jobs_modified      |-> <<>>,
                     stage_changes      |-> <<>>,
                     dependency_changes |-> <<>>]) :
                removed \in JobsRemoved(jobs1, jobs2),
                added   \in JobsAdded(jobs1, jobs2),
                order   \in ListOfSet(DOMAIN jobs1 \cap DOMAIN jobs2) }

\* Lines 232-268: the values compare_pipelines can return for two renderings
CompareResults(r1, r2) ==
    IF r1 = None \/ r2 = None
    THEN {None}
    ELSE { [pipeline1 |-> r1, pipeline2 |-> r2, comparison |-> c] :
           c \in Comparisons(r1.jobs, r2.jobs) }

----------------------------------------------------------------------------
(* One run of the script: __main__, render_pipeline and the remote steps *)

Request(req, status) == [req |-> req, status |-> status]

coreVars == <<swapped, jobs, job_graph>>

Init ==
    /\ pc = "main"
    /\ mode \in {"render", "compare"}
    /\ token \in {NoToken, "cli-token"}
    /\ call = 0
    /\ calls = <<>>
    /\ project = None
    /\ pipeline = None
    /\ ret = None
    /\ result1 = None
    /\ result2 = None
    /\ result = None
    /\ swapped = None
    /\ jobs = <<>>
    /\ job_graph = None

\* __main__ calls compare_pipelines or render_pipeline; either one starts
\* with a call of render_pipeline.
main ==
    /\ pc = "main"
    /\ pc' = "render_pipeline"
    /\ call' = 1
    /\ UNCHANGED <<mode, token, calls, project, pipeline, ret,
                   result1, result2, result, coreVars>>

\* render_pipeline returns v: no later step of this call is performed
Return(v) ==
    /\ pc' = "return"
    /\ ret' = v

\* render_pipeline lines 197-198 with get_or_create_token: a token is
\* requested only when none is held; the outcome is not looked at.
get_or_create_token ==
    /\ pc = "render_pipeline"
    /\ IF token # NoToken
       THEN /\ calls' = <<>>
            /\ UNCHANGED token
       ELSE \E created \in BOOLEAN :
            /\ calls' = <<Request("create_token", IF created THEN 200 ELSE 422)>>
            /\ token' = IF created THEN "created-token" ELSE NoToken
    /\ pc' = "create_test_project"
    /\ UNCHANGED <<mode, call, project, pipeline, ret,
                   result1, result2, result, coreVars>>

\* create_test_project and render_pipeline lines 201-203
create_test_project ==
    /\ pc = "create_test_project"
    /\ \E status \in {201, 400} :
        /\ calls' = Append(calls, Request("create_project", status))
        /\ IF status = 201
           THEN /\ project' = [id |-> call]
                /\ pc' = "upload_ci_config"
                /\ UNCHANGED ret
           ELSE /\ Return(None)
                /\ UNCHANGED project
    /\ UNCHANGED <<mode, token, call, pipeline, result1, result2, result, coreVars>>

\* upload_ci_config and render_pipeline lines 206-207: PUT, then POST when
\* the PUT answered 400
upload_ci_config ==
    /\ pc = "upload_ci_config"
    /\ \E put \in {200, 400, 500}, post \in {201, 400} :
        LET sent   == IF put = 400
                      THEN <<Request("put_ci_config", put), Request("post_ci_config", post)>>
                      ELSE <<Request("put_ci_config", put)>>
            status == IF put = 400 THEN post ELSE put
        IN  /\ calls' = calls \o sent
            /\ IF status \in {200, 201}
               THEN /\ pc' = "create_pipeline"
                    /\ UNCHANGED ret
               ELSE Return(None)
    /\ UNCHANGED <<mode, token, call, project, pipeline, result1, result2, result, coreVars>>

\* Variant of create_pipeline: a failed cancel request counts as a failure
create_pipeline_cancel_stops ==
    /\ pc = "create_pipeline"
    /\ \E status \in {201, 400}, cancel_status \in {200, 403} :
        IF status = 201
        THEN /\ calls' = calls \o <<Request("create_pipeline", status),
                                    Request("cancel_pipeline", cancel_status)>>
             /\ IF cancel_status = 200
                THEN /\ pipeline' = [id |-> call]
                     /\ pc' = "get_pipeline_details"
                     /\ UNCHANGED ret
                ELSE /\ Return(None)
                     /\ UNCHANGED pipeline
        ELSE /\ calls' = Append(calls, Request("create_pipeline", status))
             /\ Return(None)
             /\ UNCHANGED pipeline
    /\ UNCHANGED <<mode, token, call, project, result1, result2, result, coreVars>>

\* create_pipeline and render_pipeline lines 210-215: the cancel request
\* follows a created pipeline at once; its status only selects a message
create_pipeline ==
    /\ pc = "create_pipeline"
    /\ \E status \in {201, 400}, cancel_status \in {200, 403} :
        IF status = 201
        THEN /\ calls' = calls \o <<Request("create_pipeline", status),
                                    Request("cancel_pipeline", cancel_status)>>
             /\ pipeline' = [id |-> call]
             /\ pc' = "get_pipeline_details"
             /\ UNCHANGED ret
        ELSE /\ calls' = Append(calls, Request("create_pipeline", status))
             /\ Return(None)
             /\ UNCHANGED pipeline
    /\ UNCHANGED <<mode, token, call, project, result1, result2, result, coreVars>>

\* get_pipeline_details and render_pipeline lines 218-223
get_pipeline_details ==
    /\ pc = "get_pipeline_details"
    /\ \E pipeline_status \in {200, 404}, jobs_status \in {200, 500}, variables_status \in {200, 403},
          jobs_body \in JobSeqs(RemoteRecords), variables_body \in RemoteVariables :
        LET got_pipeline  == IF pipeline_status = 200 THEN pipeline ELSE None
            got_jobs      == IF jobs_status = 200 THEN jobs_body ELSE <<>>
            got_variables == IF variables_status = 200 THEN variables_body ELSE <<>>
        IN  /\ calls' = calls \o <<Request("get_pipeline", pipeline_status),
                                   Request("get_jobs", jobs_status),
                                   Request("get_variables", variables_status)>>
            /\ Return([pipeline  |-> got_pipeline,
                       jobs      |-> got_jobs,
                       variables |-> got_variables,
                       job_graph |-> build_job_graph(got_jobs)])
    /\ UNCHANGED <<mode, token, call, project, pipeline, result1, result2, result, coreVars>>

\* The caller takes the value render_pipeline returned: __main__ line 295,
\* compare_pipelines lines 229 and 230.  The second rendering is started
\* whatever the first one returned.
render_pipeline_return ==
    /\ pc = "return"
    /\ calls' = <<>>
    /\ project' = None
    /\ pipeline' = None
    /\ ret' = None
    /\ IF mode = "render"
       THEN /\ result' = ret
            /\ pc' = "done"
            /\ UNCHANGED <<call, result1, result2>>
       ELSE IF call = 1
       THEN /\ result1' = ret
            /\ call' = 2
            /\ pc' = "render_pipeline"
            /\ UNCHANGED <<result2, result>>
       ELSE /\ result2' = ret
            /\ pc' = "compare"
            /\ UNCHANGED <<call, result1, result>>
    /\ UNCHANGED <<mode, token, coreVars>>

\* compare_pipelines lines 232-268
compare_pipelines ==
    /\ pc = "compare"
    /\ result' \in CompareResults(result1, result2)
    /\ pc' = "done"
    /\ UNCHANGED <<mode, token, call, calls, project, pipeline, ret,
                   result1, result2, coreVars>>

Next ==
    \/ main
    \/ get_or_create_token
    \/ create_test_project
    \/ upload_ci_config
    \/ create_pipeline
    \/ get_pipeline_details
    \/ render_pipeline_return
    \/ compare_pipelines

Spec == Init /\ [][Next]_vars

----------------------------------------------------------------------------
(* build_job_graph on its own *)

InitBuild ==
    /\ pc = "build_job_graph"
    /\ jobs \in JobSeqs(BuildRecords)
    /\ job_graph = None
    /\ mode = "render"
    /\ token = NoToken
    /\ call = 0
    /\ calls = <<>>
    /\ project = None
    /\ pipeline = None
    /\ ret = None
    /\ result1 = None
    /\ result2 = None
    /\ result = None
    /\ swapped = None

\* A call build_job_graph(jobs): it returns the graph, or the subscript of a
\* missing required key raises
call_build_job_graph ==
    /\ pc = "build_job_graph"
    /\ LET graph == build_job_graph(jobs)
       IN  IF graph = KeyError
           THEN /\ pc' = "raised"
                /\ UNCHANGED job_graph
           ELSE /\ pc' = "returned"
                /\ job_graph' = graph
    /\ UNCHANGED <<mode, token, call, calls, project, pipeline, ret,
                   result1, result2, result, swapped, jobs>>

NextBuild == call_build_job_graph

SpecBuild == InitBuild /\ [][NextBuild]_vars

----------------------------------------------------------------------------
(* The comparison on its own, in both argument orders *)

\* What get_pipeline_details returns for a job list
Rendering(js) ==
    [pipeline |-> [id |-> 1], jobs |-> js, variables |-> <<>>, job_graph |-> build_job_graph(js)]

InitDiff ==
    /\ pc = "compare"
    /\ mode = "compare"
    /\ \E js1 \in JobSeqs(DiffRecords), js2 \in JobSeqs(DiffRecords) :
        /\ result1 = Rendering(js1)
        /\ result2 = Rendering(js2)
    /\ result = None
    /\ swapped = None
    /\ token = NoToken
    /\ call = 2
    /\ calls = <<>>
    /\ project = None
    /\ pipeline = None
    /\ ret = None
    /\ jobs = <<>>
    /\ job_graph = None

\* The same comparison with baseline and candidate exchanged
compare_swapped ==
    /\ pc = "done"
    /\ swapped = None
    /\ swapped' \in CompareResults(result2, result1)
    /\ UNCHANGED <<pc, mode, token, call, calls, project, pipeline, ret,
                   result1, result2, result, jobs, job_graph>>

NextDiff ==
    \/ compare_pipelines
    \/ compare_swapped

SpecDiff == InitDiff /\ [][NextDiff]_vars

----------------------------------------------------------------------------
(* Properties of build_job_graph, checked under SpecBuild *)

NamesOf(js) == {js[i].name : i \in DOMAIN js}

\* The last record of js that bears the name n
LastRecord(js, n) ==
    js[CHOOSE i \in DOMAIN js :
          /\ js[i].name = n
          /\ \A k \in DOMAIN js : k > i => js[k].name # n]

RequiredFields == {"name", "stage", "status"}

FieldDefault ==
    [dependencies |-> <<>>, needs |-> <<>>, when |-> "on_success", allow_failure |-> FALSE]

\* The value a node holds for an optional field that the record carries
Copied(r, f) ==
    IF f = "needs" THEN [i \in DOMAIN r.needs |-> r.needs[i].name] ELSE r[f]

\* The node the specification gives for one record
ExpectedNode(r) ==
    [stage  |-> r.stage,
     status |-> r.status] @@
    [f \in OptionalFields |-> IF f \in DOMAIN r THEN Copied(r, f) ELSE FieldDefault[f]]

\* C2: the graph build_job_graph returns has exactly the distinct names of
\* its input as keys, and the node under each name is the one of the last
\* record bearing that name: nothing of an earlier record remains.
C2_LastWriteWins ==
    pc = "returned" =>
        /\ DOMAIN job_graph = NamesOf(jobs)
        /\ \A n \in NamesOf(jobs) : job_graph[n] = ExpectedNode(LastRecord(jobs, n))

\* Two records of one name, the first with every optional key and the
\* second with none and another stage
C2_Witness ==
    /\ pc = "returned"
    /\ Len(jobs) = 2
    /\ jobs[1].name = jobs[2].name
    /\ OptionalFields \subseteq DOMAIN jobs[1]
    /\ DOMAIN jobs[2] = RequiredFields
    /\ jobs[1].stage = "compile"
    /\ jobs[2].stage = "link"
    /\ job_graph[jobs[2].name].stage = "link"

\* C8: a record with name, stage and status, whatever optional keys it
\* omits, never makes build_job_graph raise; in the node, an omitted
\* optional field holds its default ([], [], "on_success", false) and a
\* present one is copied unchanged, needs as the names of its entries in
\* order.
C8_PermissiveDefaults ==
    /\ pc = "raised" => \E i \in DOMAIN jobs : ~(RequiredFields \subseteq DOMAIN jobs[i])
    /\ pc = "returned" =>
        \A n \in DOMAIN job_graph :
            LET r == LastRecord(jobs, n)
            IN  \A f \in OptionalFields :
                    /\ f \notin DOMAIN r => job_graph[n][f] = FieldDefault[f]
                    /\ f \in DOMAIN r =>
                        IF f = "needs"
                        THEN /\ Len(job_graph[n].needs) = Len(r.needs)
                             /\ \A i \in DOMAIN r.needs : job_graph[n].needs[i] = r.needs[i].name
                        ELSE job_graph[n][f] = r[f]

\* One record without any optional key next to one that carries some
C8_Witness ==
    /\ pc = "returned"
    /\ Len(jobs) = 2
    /\ jobs[1].name # jobs[2].name
    /\ DOMAIN jobs[1] = RequiredFields
    /\ DOMAIN jobs[2] = RequiredFields \cup {"needs", "allow_failure"}
    /\ job_graph[jobs[1].name].when = "on_success"
    /\ job_graph[jobs[2].name].needs = <<"test", "build">>

----------------------------------------------------------------------------
(* Properties of the comparison, checked under SpecDiff *)

Baseline == result1.jobs

Candidate == result2.jobs

Common == NamesOf(Baseline) \cap NamesOf(Candidate)

Compared == pc = "done"

\* The rendering the specification gives for a stage change
Rendered(n, old, new) == n \o ": " \o old \o " -> " \o new

StageLabels == {Baseline[i].stage : i \in DOMAIN Baseline} \cup {Candidate[i].stage : i \in DOMAIN Candidate}

\* A record's dependencies as a set, a missing field being empty
Deps(r) == IF "dependencies" \in DOMAIN r THEN {r.dependencies[i] : i \in DOMAIN r.dependencies} ELSE {}

\* C1: comparing a job sequence with itself gives empty jobs_added,
\* jobs_removed, stage_changes and dependency_changes.
C1_Idempotence ==
    (Compared /\ Baseline = Candidate) =>
        /\ result.comparison.jobs_added = <<>>
        /\ result.comparison.jobs_removed = <<>>
        /\ result.comparison.stage_changes = <<>>
        /\ result.comparison.dependency_changes = <<>>

\* A sequence with a repeated name compared with itself
C1_Witness ==
    /\ Compared
    /\ Baseline = Candidate
    /\ Len(Baseline) = 2
    /\ Baseline[1].name = Baseline[2].name
    /\ Baseline[1] # Baseline[2]

\* C3: jobs_added is names(B) minus names(A), jobs_removed is names(A) minus
\* names(B), every dependency_changes and stage_changes entry is about a
\* job present on both sides, and a name present on one side only has no
\* such entry.
C3_ExactSetDifference ==
    Compared =>
        LET c == result.comparison
        IN  /\ Range(c.jobs_added) = NamesOf(Candidate) \ NamesOf(Baseline)
            /\ Range(c.jobs_removed) = NamesOf(Baseline) \ NamesOf(Candidate)
            /\ \A i \in DOMAIN c.dependency_changes : c.dependency_changes[i].job \in Common
            /\ \A i \in DOMAIN c.stage_changes :
                   \E n \in Common, old \in StageLabels, new \in StageLabels :
                       c.stage_changes[i] = Rendered(n, old, new)
            /\ \A n \in (NamesOf(Baseline) \cup NamesOf(Candidate)) \ Common :
                   \A i \in DOMAIN c.stage_changes, old \in StageLabels, new \in StageLabels :
                       c.stage_changes[i] # Rendered(n, old, new)

\* A job removed while the job that stays changes stage and dependencies
C3_Witness ==
    /\ Compared
    /\ result.comparison.jobs_removed = <<"build">>
    /\ result.comparison.jobs_added = <<>>
    /\ result.comparison.stage_changes # <<>>
    /\ result.comparison.dependency_changes # <<>>

\* C4: a job present on both sides has exactly one dependency_changes entry
\* if its dependencies differ as sets (a missing field being empty) and none
\* otherwise; the entry's removed is baseline minus candidate, its added is
\* candidate minus baseline, and one of the two is non-empty.
C4_DependencyChanges ==
    Compared =>
        LET c == result.comparison
        IN  \A n \in Common :
                LET d1 == Deps(LastRecord(Baseline, n))
                    d2 == Deps(LastRecord(Candidate, n))
                    entries == {i \in DOMAIN c.dependency_changes : c.dependency_changes[i].job = n}
                IN  /\ Cardinality(entries) = IF d1 # d2 THEN 1 ELSE 0
                    /\ \A i \in entries :
                        /\ Range(c.dependency_changes[i].removed) = d1 \ d2
                        /\ Range(c.dependency_changes[i].added) = d2 \ d1
                        /\ \/ c.dependency_changes[i].removed # <<>>
                           \/ c.dependency_changes[i].added # <<>>

\* {build, test} against {test, lint}: one entry, build removed, lint added
C4_Witness ==
    /\ Compared
    /\ result.comparison.dependency_changes =
           <<[job |-> "deploy", removed |-> <<"build">>, added |-> <<"lint">>]>>

\* C5: a job present on both sides has exactly one stage_changes entry if
\* its two stages are unequal, rendered "<name>: <old> -> <new>" with the
\* baseline stage as old and the candidate stage as new, and none if they
\* are equal.
C5_StageChanges ==
    Compared =>
        LET c == result.comparison
            changed == {n \in Common : LastRecord(Baseline, n).stage # LastRecord(Candidate, n).stage}
        IN  /\ Len(c.stage_changes) = Cardinality(changed)
            /\ \A n \in changed :
                   Cardinality({i \in DOMAIN c.stage_changes :
                       c.stage_changes[i] = Rendered(n, LastRecord(Baseline, n).stage,
                                                        LastRecord(Candidate, n).stage)}) = 1

C5_Witness ==
    /\ Compared
    /\ NamesOf(Baseline) = {"build", "deploy"}
    /\ result.comparison.stage_changes = <<"build: compile -> link">>

\* Two job lists that agree, record by record, on name, stage and
\* dependencies
AgreeButNeeds(js1, js2) ==
    /\ Len(js1) = Len(js2)
    /\ \A i \in DOMAIN js1 :
        /\ js1[i].name = js2[i].name
        /\ js1[i].stage = js2[i].stage
        /\ ("dependencies" \in DOMAIN js1[i]) = ("dependencies" \in DOMAIN js2[i])
        /\ "dependencies" \in DOMAIN js1[i] => js1[i].dependencies = js2[i].dependencies

\* C7: two job collections that agree on every job's name, stage and
\* dependencies and differ in needs, status, when or allow_failure only
\* compare with empty dependency_changes, jobs_added, jobs_removed and
\* stage_changes.
C7_NeedsOutsideDiff ==
    (Compared /\ AgreeButNeeds(Baseline, Candidate)) =>
        /\ result.comparison.dependency_changes = <<>>
        /\ result.comparison.jobs_added = <<>>
        /\ result.comparison.jobs_removed = <<>>
        /\ result.comparison.stage_changes = <<>>

\* The same job with needs = [build] on one side and [lint] on the other
C7_Witness ==
    /\ Compared
    /\ AgreeButNeeds(Baseline, Candidate)
    /\ \E i \in DOMAIN Baseline :
        /\ "needs" \in DOMAIN Baseline[i]
        /\ "needs" \in DOMAIN Candidate[i]
        /\ Baseline[i].needs # Candidate[i].needs

\* C9: the set jobs_added of compare(A, B) is the set jobs_removed of
\* compare(B, A), and the set jobs_removed of compare(A, B) is the set
\* jobs_added of compare(B, A).
C9_Symmetry ==
    (Compared /\ swapped # None) =>
        /\ Range(result.comparison.jobs_added) = Range(swapped.comparison.jobs_removed)
        /\ Range(result.comparison.jobs_removed) = Range(swapped.comparison.jobs_added)

C9_Witness ==
    /\ Compared
    /\ swapped # None
    /\ result.comparison.jobs_added = <<"deploy">>
    /\ result.comparison.jobs_removed = <<"build">>

----------------------------------------------------------------------------
(* Properties of the rendering workflow, checked under Spec *)

Sent(req) == \E i \in DOMAIN calls : calls[i].req = req

Answered(req, status) == \E i \in DOMAIN calls : calls[i] = Request(req, status)

ProjectCreated == Answered("create_project", 201)

Uploaded == Answered("put_ci_config", 200) \/ Answered("post_ci_config", 201)

PipelineCreated == Answered("create_pipeline", 201)

FixedOrder ==
    <<"create_token", "create_project", "put_ci_config", "post_ci_config",
      "create_pipeline", "cancel_pipeline", "get_pipeline", "get_jobs", "get_variables">>

Rank(req) == CHOOSE k \in DOMAIN FixedOrder : FixedOrder[k] = req

\* C6 (refuted by line 162, which answers a failed jobs request with []):
\* when the request that lists a pipeline's jobs fails, render_pipeline
\* reports an error (None) instead of a rendering with an empty job list.
C6_FetchFailureSurfaced ==
    (pc = "return" /\ \E i \in DOMAIN calls : calls[i].req = "get_jobs" /\ calls[i].status # 200)
        => ret = None

=============================================================================
